---- MODULE Spec2Model ----
(***************************************************************************)
(* The asynchronous job engine of froyo (src/source/engine.py): the action *)
(* queue, the worker pool, the Active Set, the Work Cache, the retry table *)
(* with its timers, and the controller thread that calls the public API.   *)
(*                                                                         *)
(* Every lock acquisition of the code is one step of the model; what a     *)
(* thread does between two acquisitions touches no shared state.  Observer *)
(* callbacks touch no engine state: a callback "runs" on the step that     *)
(* leaves the pc at which the code invokes it.                             *)
(*                                                                         *)
(* Spec is the engine with work and series tasks, the download directory   *)
(* and the retry timers; LiveSpec is Spec with threads that run when they  *)
(* can; ResultsSpec is the expansion of a listing into its page tasks;     *)
(* SingleSpec is the engine with one worker, download_all and a disk that  *)
(* can fail; SessionSpec has login, logout and downloads; ConfigSpec reads *)
(* the settings file and starts the workers; LockSpec follows the three    *)
(* mutexes; EnqueueSpec follows the controller through the enqueue         *)
(* callbacks of a public call.                                             *)
(***************************************************************************)
EXTENDS Integers, Sequences, FiniteSets, TLC

\* ------------------------------------------------------------------ bounds
NumWorkers == 2        \* size of the worker pool (concurrency_limit)
MaxWorkId == 1         \* work ids are 1..MaxWorkId
MaxCalls == 2          \* load / download calls the controller makes
MaxRemovals == 1       \* remove / remove_all calls the controller makes
MaxRateLimits == 2     \* rate-limit (HTTP 429) answers the Archive gives
MaxLiveCalls == 1      \* load / download calls in the runs of LiveSpec
MaxDeletes == 1        \* files the user deletes from the download directory
MaxPage == 3           \* pages of a listing, and the page numbers of a call
MaxListCalls == 1      \* load_works_from_generic_url calls in ResultsSpec
MaxWriteFailures == 1  \* file creations or writes that fail in SingleSpec
MaxDownloadAlls == 1   \* download_all calls in SingleSpec
MaxLogins == 1         \* login calls in SessionSpec
MaxLogouts == 1        \* logout calls in SessionSpec
MaxFileLimit == 52     \* largest concurrency_limit of a settings file

\* --------------------------------------------------------------- constants
INITIAL_SECONDS_BEFORE_RETRY == 10
DEFAULT_CONCURRENCY_LIMIT == 20
\* the largest value the settings window accepts for concurrency_limit
MAX_CONCURRENCY == 50

LOAD_WORK == "LOAD_WORK"
DOWNLOAD_WORK == "DOWNLOAD_WORK"
LOAD_SERIES == "LOAD_SERIES"
LOAD_RESULTS_LIST == "LOAD_RESULTS_LIST"
LOAD_RESULTS_PAGE == "LOAD_RESULTS_PAGE"
LOGIN == "LOGIN"
SENTINEL == "_SENTINEL"

OK == "OK"
ERROR == "ERROR"
RETRY == "RETRY"

\* kwargs["error"] of a handler that returns Status.ERROR
ZERO_BYTES == "Downloaded 0 bytes"
STR_E == "str(e)"
AUTH_REQUIRED == "Work is only accessible to logged-in users."
\* kwargs["error"] of a task that is retried; {wait_time} is the delay that
\* the worker computed for the timer (the field wait of the worker)
HIT_RATE_LIMIT == "Hit rate limit, trying again in {wait_time}s..."

Workers == 1..NumWorkers
WorkIds == 1..MaxWorkId
\* One series, whose id is numerically a work id as well.
SeriesIds == {1}
Identifiers == WorkIds \cup SeriesIds

\* class Action: the kinds with a retry key in this model
Action == {SENTINEL, LOAD_WORK, DOWNLOAD_WORK, LOAD_SERIES}
WorkActions == {LOAD_WORK, DOWNLOAD_WORK}
Keys == Identifiers \X Action

\* Series(series_id).work_list: the works of the series
SeriesWorks(s) == WorkIds

VARIABLES
    active,    \* _active_ids: the Active Set
    items,     \* _items: work id -> "none" | "loaded" | "downloaded"
    queue,     \* _queue: FIFO of <<identifier, action>>
    retries,   \* _retries: key -> sequence of timers [delay, st]
    wk,        \* the workers: pc and locals of _process_queue
    ui,        \* the controller thread: pc and argument of the running call
    calls,     \* load and download calls made so far
    removals,  \* remove and remove_all calls made so far
    limited,   \* rate-limit answers given so far
    files,     \* the download directory: work id -> "absent" | "empty" | "full"
    ever,      \* the ids that were added to the Active Set at some time
    deletes,   \* files the user has deleted from the download directory
    session,   \* Engine.session: "guest" | "authed" | "none" (attribute deleted)
    config,    \* Engine.config: should_use_threading and concurrency_limit
    threads,   \* _threads: the workers the constructor has started
    faults,    \* failures the disk has in store for file creations and writes
    locks,     \* the three mutexes of LockSpec: name -> the thread holding it
    dirs,      \* the sessions whose download directory exists
    enq        \* thread -> the task between its two enqueue callbacks, or <<>>

vars == <<active, items, queue, retries, wk, ui, calls, removals, limited,
          files, ever, deletes, session, config, threads, faults, locks, dirs,
          enq>>

\* ------------------------------------------------------------------ helpers
Idle == [pc |-> "get", id |-> 0, act |-> "NONE", status |-> "NONE",
         wait |-> 0, deq |-> FALSE, fresh |-> FALSE, error |-> "NONE",
         body |-> "NONE", pages |-> 0, page_end |-> 0, todo |-> {},
         exc |-> "none", ops |-> <<>>, dir |-> "none"]

KeyOf(w) == <<wk[w].id, wk[w].act>>

\* 1 << n
RECURSIVE Shl(_)
Shl(n) == IF n = 0 THEN 1 ELSE 2 * Shl(n - 1)

\* A timer is "armed" (waiting), "firing" (its wait ended without a cancel and
\* it is about to call its function) or "done" (threading.Timer.run).
NoneFiring(k) == \A n \in 1..Len(retries[k]) : retries[k][n].st # "firing"

\* WorkItem.work.loaded and WorkItem.download_path of a cache entry: "loaded"
\* has no download_path, "downloaded" is loaded and has one, "path_unloaded"
\* has one on a Work that was never loaded.
Loaded(it) == it \in {"loaded", "downloaded"}
HasPath(it) == it \in {"downloaded", "path_unloaded"}

\* The threads that may hold a mutex: the workers and the controller.
Ui == 0
Free == -1
Mutexes == {"active", "items", "retries"}

\* Engine.__init__: n_workers, the number of workers to start
NWorkers(cfg) ==
    IF cfg.should_use_threading /\ cfg.concurrency_limit > 1
    THEN cfg.concurrency_limit
    ELSE 1

\* Engine.__init__ with its Configuration already read: the fields it sets
\* and the threads it starts, in a download directory with no file yet, on
\* a disk that will fail disk_faults times.
Constructed(cfg, disk_faults) ==
    /\ active = {}
    /\ items = [i \in WorkIds |-> "none"]
    /\ queue = <<>>
    /\ retries = [k \in Keys |-> <<>>]
    /\ wk = [w \in Workers |-> Idle]
    /\ ui = [pc |-> "idle", id |-> 0, stopping |-> FALSE, seen |-> {},
             size |-> 0, alls |-> 0, logins |-> 0, logouts |-> 0,
             ops |-> <<>>]
    /\ calls = 0
    /\ removals = 0
    /\ limited = 0
    /\ files = [i \in WorkIds |-> "absent"]
    /\ ever = {}
    /\ deletes = 0
    /\ session = "guest"
    /\ config = cfg
    /\ threads = 1..NWorkers(cfg)
    /\ faults = disk_faults
    /\ locks = [m \in Mutexes |-> Free]
    /\ dirs = {}
    /\ enq = [t \in {Ui} \cup Workers |-> <<>>]

\* The engine of a settings file with threading on and a pool of NumWorkers,
\* on a disk that does not fail.
Init ==
    Constructed([should_use_threading |-> TRUE,
                 concurrency_limit |-> NumWorkers], 0)

\* The engine of a settings file with concurrency_limit 1, threading on or
\* off, on a disk that can fail.
InitSingle ==
    \E b \in BOOLEAN :
        Constructed([should_use_threading |-> b, concurrency_limit |-> 1],
                    MaxWriteFailures)

\* ----------------------------------------------------- engine primitives
\* Mutant: the membership check asks whether the id was ever added.
IsWorkIdActiveEver(id, act) ==
    IF act \notin WorkActions THEN TRUE ELSE id \in ever

\* Mutant: the membership check always answers that the id is active.
IsWorkIdActiveAlways(id, act) == TRUE

\* Engine._is_work_id_active
IsWorkIdActive(id, act) ==
    IF act \notin WorkActions THEN TRUE ELSE id \in active

\* Mutant: the queue hands out the task that was put last.
QueueGetLast(q) == q[Len(q)]

\* queue.Queue.get: the task that was put first
QueueGet(q) == Head(q)

\* queue.Queue.get: what is left of the queue
QueueRest(q) == Tail(q)

\* Engine._enqueue_action: queue.put((identifier, action))
EnqueueAction(q, id, act) == Append(q, <<id, act>>)

\* Engine._get_seconds_before_retry
GetSecondsBeforeRetry(k) ==
    INITIAL_SECONDS_BEFORE_RETRY * Shl(Len(retries[k]))

\* Engine._retry: Timer(wait_time, ...).start(), appended to the key's list
Retry(r, k, wait_time) ==
    [r EXCEPT ![k] = Append(@, [delay |-> wait_time, st |-> "armed"])]

\* thread.join() of every timer of the keys ks: a timer that is firing is
\* awaited (cancel() does not stop it any more).
Joined(ks) == \A k \in ks : NoneFiring(k)

\* Mutant: only the timers that have not fired are taken off the key's list.
RECURSIVE Fired(_)
Fired(s) ==
    IF s = <<>> THEN <<>>
    ELSE IF Head(s).st = "done" THEN <<Head(s)>> \o Fired(Tail(s))
    ELSE Fired(Tail(s))

CancelRetriesArmedOnly(r, k) == [r EXCEPT ![k] = Fired(@)]

\* Engine._cancel_retries: cancel and join the key's timers, delete the key
CancelRetries(r, k) == [r EXCEPT ![k] = <<>>]

\* Mutant: only the timers of work-scoped keys are cancelled.
CancelAllRetriesWorkOnly(r) ==
    [k \in Keys |-> IF k[2] \in WorkActions THEN <<>> ELSE r[k]]

\* Engine._cancel_all_retries
CancelAllRetries(r) == [k \in Keys |-> <<>>]

\* Mutant: stop() returns without its final cancellation pass.
StopCancelSkipped(r) == r

\* The timers the final pass of Engine.stop cancels
StopCancel(r) == CancelAllRetries(r)

\* Mutant: the worker that dequeued the sentinel does not put it back.
SentinelPutDropped(q) == q

\* What a worker that dequeued the sentinel puts back
SentinelPut(q) == EnqueueAction(q, -1, SENTINEL)

\* Engine._verify_download_directory_exists: mkdir(parents=True,
\* exist_ok=True) of downloads_dir / session.username
VerifyDownloadDirectoryExists(d, s) == d \cup {s}

\* ------------------------------------------------------ controller thread
\* Engine.load_works_from_work_urls, for the URL of work i
LoadWorksFromWorkUrls(i) ==
    /\ ui.pc = "idle" /\ calls < MaxCalls
    /\ active' = active \cup {i}
    /\ ever' = ever \cup {i}
    /\ queue' = EnqueueAction(queue, i, LOAD_WORK)
    /\ calls' = calls + 1
    /\ UNCHANGED <<items, retries, wk, ui, removals, limited, files, deletes,
                   session, config, threads, faults, locks, dirs, enq>>

\* Engine.download_work: the directory of the session of this moment, then
\* the task
DownloadWork(i) ==
    /\ ui.pc = "idle" /\ calls < MaxCalls
    /\ dirs' = VerifyDownloadDirectoryExists(dirs, session)
    /\ active' = active \cup {i}
    /\ ever' = ever \cup {i}
    /\ queue' = EnqueueAction(queue, i, DOWNLOAD_WORK)
    /\ calls' = calls + 1
    /\ UNCHANGED <<items, retries, wk, ui, removals, limited, files, deletes,
                   session, config, threads, faults, locks, enq>>

\* Engine.load_works_from_series_urls, for the URL of series s
LoadWorksFromSeriesUrls(s) ==
    /\ ui.pc = "idle" /\ calls < MaxCalls
    /\ queue' = EnqueueAction(queue, s, LOAD_SERIES)
    /\ calls' = calls + 1
    /\ UNCHANGED <<active, items, retries, wk, ui, removals, limited, files,
                   ever, deletes, session, config, threads, faults, locks, dirs,
                   enq>>

\* Engine.remove: _active_ids.remove(work_id) (a KeyError when absent)
RemoveActive(i) ==
    /\ ui.pc = "idle" /\ removals < MaxRemovals
    /\ i \in active
    /\ active' = active \ {i}
    /\ ui' = [ui EXCEPT !.pc = "rm_items", !.id = i]
    /\ removals' = removals + 1
    /\ UNCHANGED <<items, queue, retries, wk, calls, limited, files, ever,
                   deletes, session, config, threads, faults, locks, dirs, enq>>

\* Engine.remove: del _items[work_id]
RemoveItem ==
    /\ ui.pc = "rm_items"
    /\ items' = [items EXCEPT ![ui.id] = "none"]
    /\ ui' = [ui EXCEPT !.pc = "rm_cancel"]
    /\ UNCHANGED <<active, queue, retries, wk, calls, removals, limited, files,
                   ever, deletes, session, config, threads, faults, locks, dirs,
                   enq>>

\* Engine.remove: for action in Action: _cancel_retries(work_id, action)
RemoveCancel ==
    /\ ui.pc = "rm_cancel"
    /\ Joined({k \in Keys : k[1] = ui.id})
    /\ retries' = [k \in Keys |->
                     IF k[1] = ui.id THEN CancelRetries(retries, k)[k]
                     ELSE retries[k]]
    /\ ui' = [ui EXCEPT !.pc = "idle", !.id = 0]
    /\ UNCHANGED <<active, items, queue, wk, calls, removals, limited, files,
                   ever, deletes, session, config, threads, faults, locks, dirs,
                   enq>>

\* Engine.remove_all: _active_ids.clear()
RemoveAllActive ==
    /\ \/ ui.pc = "idle" /\ removals < MaxRemovals /\ removals' = removals + 1
       \/ ui.pc = "st_remove_all" /\ removals' = removals
    /\ active' = {}
    /\ ui' = [ui EXCEPT !.pc = "ra_items"]
    /\ UNCHANGED <<items, queue, retries, wk, calls, limited, files, ever,
                   deletes, session, config, threads, faults, locks, dirs, enq>>

\* Engine.remove_all: _items.clear()
RemoveAllItems ==
    /\ ui.pc = "ra_items"
    /\ items' = [i \in WorkIds |-> "none"]
    /\ ui' = [ui EXCEPT !.pc = "ra_cancel"]
    /\ UNCHANGED <<active, queue, retries, wk, calls, removals, limited, files,
                   ever, deletes, session, config, threads, faults, locks, dirs,
                   enq>>

\* Engine.remove_all: _cancel_all_retries(), then back to the caller
RemoveAllCancel ==
    /\ ui.pc = "ra_cancel"
    /\ Joined(Keys)
    /\ retries' = CancelAllRetries(retries)
    /\ ui' = [ui EXCEPT !.pc = IF ui.stopping THEN "st_join" ELSE "idle"]
    /\ UNCHANGED <<active, items, queue, wk, calls, removals, limited, files,
                   ever, deletes, session, config, threads, faults, locks, dirs,
                   enq>>

\* Engine.stop: _queue.put((-1, Action._SENTINEL)), then remove_all()
StopPut ==
    /\ ui.pc = "idle"
    /\ queue' = EnqueueAction(queue, -1, SENTINEL)
    /\ ui' = [ui EXCEPT !.pc = "st_remove_all", !.stopping = TRUE]
    /\ UNCHANGED <<active, items, retries, wk, calls, removals, limited, files,
                   ever, deletes, session, config, threads, faults, locks, dirs,
                   enq>>

\* Engine.stop: for thread in _threads: thread.join()
StopJoin ==
    /\ ui.pc = "st_join"
    /\ \A w \in threads : wk[w].pc = "done"
    /\ ui' = [ui EXCEPT !.pc = "st_cancel"]
    /\ UNCHANGED <<active, items, queue, retries, wk, calls, removals, limited,
                   files, ever, deletes, session, config, threads, faults,
                   locks, dirs, enq>>

\* Engine.stop: the final _cancel_all_retries(); stop() returns
StopCancelAll ==
    /\ ui.pc = "st_cancel"
    /\ Joined(Keys)
    /\ retries' = StopCancel(retries)
    /\ ui' = [ui EXCEPT !.pc = "stopped"]
    /\ UNCHANGED <<active, items, queue, wk, calls, removals, limited, files,
                   ever, deletes, session, config, threads, faults, locks, dirs,
                   enq>>

\* Engine.download_all: the directory of the session of this moment; the
\* iterator over _active_ids is made, with no mutex held
DownloadAllIter ==
    /\ ui.pc = "idle" /\ ui.alls < MaxDownloadAlls
    /\ dirs' = VerifyDownloadDirectoryExists(dirs, session)
    /\ ui' = [ui EXCEPT !.pc = "da_next", !.seen = {},
                        !.size = Cardinality(active), !.alls = @ + 1]
    /\ UNCHANGED <<active, items, queue, retries, wk, calls, removals, limited,
                   files, ever, deletes, session, config, threads, faults,
                   locks, enq>>

\* Engine.download_all: the iterator's next id, again with no mutex held,
\* and _enqueue_work_action for it.  A set whose size has changed since the
\* iterator was made raises RuntimeError, which ends the call; ids that came
\* and went without a change of size may be visited or skipped.
DownloadAllNext ==
    /\ ui.pc = "da_next"
    /\ IF Cardinality(active) # ui.size \/ active \ ui.seen = {}
       THEN /\ ui' = [ui EXCEPT !.pc = "idle", !.seen = {}, !.size = 0]
            /\ UNCHANGED <<queue, ever>>
       ELSE \E i \in active \ ui.seen :
              /\ queue' = EnqueueAction(queue, i, DOWNLOAD_WORK)
              /\ ever' = ever \cup {i}
              /\ ui' = [ui EXCEPT !.seen = @ \cup {i}]
    /\ UNCHANGED <<active, items, retries, wk, calls, removals, limited, files,
                   deletes, session, config, threads, faults, locks, dirs, enq>>

Controller ==
    \/ \E i \in WorkIds : LoadWorksFromWorkUrls(i)
    \/ \E i \in WorkIds : DownloadWork(i)
    \/ \E s \in SeriesIds : LoadWorksFromSeriesUrls(s)
    \/ \E i \in WorkIds : RemoveActive(i)
    \/ RemoveItem
    \/ RemoveCancel
    \/ RemoveAllActive
    \/ RemoveAllItems
    \/ RemoveAllCancel
    \/ StopPut
    \/ StopJoin
    \/ StopCancelAll

\* ---------------------------------------------------------------- workers
\* The answers of the Archive to one request: served, rate limited (HTTP
\* 429, at most MaxRateLimits times) or failed with another exception.
Answers == {OK, ERROR} \cup (IF limited < MaxRateLimits THEN {RETRY} ELSE {})

Count(st) == IF st = RETRY THEN limited + 1 ELSE limited

\* What _reload_work_with_current_session does: it returns ("none"), or
\* raises HTTPError (rate limited), AuthError (the page of a restricted work,
\* which only a session that is not authenticated gets, has no heading:
\* AttributeError, turned into AuthError) or another exception.  Without a
\* session attribute the read of self.session raises, in the try block and
\* again in its except clause.
ReloadOutcomes ==
    IF session = "none" THEN {"Exception"}
    ELSE {"none", "Exception"}
         \cup (IF limited < MaxRateLimits THEN {"HTTPError"} ELSE {})
         \cup (IF session = "guest" THEN {"AuthError"} ELSE {})

\* Mutant: the load handler takes the AuthError for a rate limit.
ExceptStatusAuthRetry(exc) ==
    IF exc \in {"HTTPError", "AuthError"} THEN RETRY ELSE ERROR

\* _load_work: the except clauses after the reload
ExceptStatus(exc) == IF exc = "HTTPError" THEN RETRY ELSE ERROR

\* str(e) of the exception that _load_work reports
StrOf(exc) == IF exc = "AuthError" THEN AUTH_REQUIRED ELSE STR_E

\* The work the loop over series.work_list is at: the list in ascending order
NextWork(todo) == CHOOSE i \in todo : \A j \in todo : i <= j

\* Mutant: the series handler puts a download task for the work.
SeriesPutDownload(q, i) == EnqueueAction(q, i, DOWNLOAD_WORK)

\* _load_works_from_series: the task it puts for a work of the list
SeriesPut(q, i) == EnqueueAction(q, i, LOAD_WORK)

\* What is at the target path after open(download_path, "wb") or file.write
\* raised: the file as it was when open failed; the created or truncated
\* file, empty or with a part of the content, when the write failed.
WriteFailures(old) == {old, "empty", "partial"}

\* The answers to the byte fetch work.download(filetype): a body with content,
\* an empty body, HTTPError (rate limited) or another exception.
Bodies == {"full", "empty", ERROR} \cup
          (IF limited < MaxRateLimits THEN {RETRY} ELSE {})

\* Mutant: the handler finds no download it could skip.
AlreadyDownloadedNever(it, f) == FALSE

\* _download_work: work_item.download_path and download_path.is_file()
AlreadyDownloaded(it, f) == HasPath(it) /\ f # "absent"

\* Mutant: the title of a Work that was never loaded is read without error.
TitleRaisesNever(fresh) == FALSE

\* _download_work: work_item.work.title raises AttributeError when the
\* handler's own WorkItem was never loaded
TitleRaises(fresh) == fresh

\* Mutant: the content test lets an empty body through.
ContentMissingNever(body) == FALSE

\* _download_work: not content
ContentMissing(body) == body = "empty"

\* _process_queue: identifier, action = self._queue.get()
Get(w) ==
    /\ w \in threads
    /\ wk[w].pc = "get"
    /\ queue # <<>>
    /\ LET id == QueueGet(queue)[1]
           act == QueueGet(queue)[2]
       IN wk' = [wk EXCEPT ![w] =
                   IF act = SENTINEL
                   THEN [Idle EXCEPT !.pc = "sentinel"]
                   ELSE [Idle EXCEPT !.pc = "check1", !.id = id, !.act = act,
                                     !.deq = IsWorkIdActive(id, act)]]
    /\ queue' = QueueRest(queue)
    /\ UNCHANGED <<active, items, retries, ui, calls, removals, limited, files,
                   ever, deletes, session, config, threads, faults, locks, dirs,
                   enq>>

\* _process_queue: the exit condition puts the sentinel back and returns
PutSentinel(w) ==
    /\ wk[w].pc = "sentinel"
    /\ queue' = SentinelPut(queue)
    /\ wk' = [wk EXCEPT ![w] = [Idle EXCEPT !.pc = "done"]]
    /\ UNCHANGED <<active, items, retries, ui, calls, removals, limited, files,
                   ever, deletes, session, config, threads, faults, locks, dirs,
                   enq>>

\* _process_queue: the membership check before the handler
Check1(w) ==
    /\ wk[w].pc = "check1"
    /\ wk' = [wk EXCEPT ![w] =
                IF IsWorkIdActive(wk[w].id, wk[w].act)
                THEN [@ EXCEPT !.pc = "run", !.deq = FALSE]
                ELSE Idle]
    /\ UNCHANGED <<active, items, queue, retries, ui, calls, removals, limited,
                   files, ever, deletes, session, config, threads, faults,
                   locks, dirs, enq>>

\* before-action observer, then _load_work up to its cache read
RunLoadWork(w) ==
    /\ wk[w].pc = "run" /\ wk[w].act = LOAD_WORK
    /\ wk' = [wk EXCEPT ![w] =
                IF Loaded(items[wk[w].id])
                THEN [@ EXCEPT !.pc = "check2", !.status = OK]
                ELSE [@ EXCEPT !.pc = "reload"]]
    /\ UNCHANGED <<active, items, queue, retries, ui, calls, removals, limited,
                   files, ever, deletes, session, config, threads, faults,
                   locks, dirs, enq>>

\* _load_work: reload the work with the current session, store it
Reload(w) ==
    /\ wk[w].pc \in {"reload", "dl_reload"}
    /\ \E exc \in ReloadOutcomes :
         LET st == IF exc = "none" THEN OK ELSE ExceptStatus(exc)
         IN /\ items' = IF st = OK
                        THEN [items EXCEPT ![wk[w].id] = "loaded"]
                        ELSE items
            /\ limited' = IF exc = "HTTPError" THEN limited + 1 ELSE limited
            /\ wk' = [wk EXCEPT ![w] =
                        [@ EXCEPT !.status = st, !.exc = exc,
                                  !.error = IF st = ERROR THEN StrOf(exc)
                                            ELSE "NONE",
                                  !.pc = IF @ = "reload" THEN "check2"
                                         ELSE "dl_after",
                                  !.fresh = (wk[w].pc = "dl_reload"
                                             /\ st = OK)]]
    /\ UNCHANGED <<active, queue, retries, ui, calls, removals, files, ever,
                   deletes, session, config, threads, faults, locks, dirs, enq>>

\* before-action observer, then _download_work up to its cache read
RunDownloadWork(w) ==
    /\ wk[w].pc = "run" /\ wk[w].act = DOWNLOAD_WORK
    /\ wk' = [wk EXCEPT ![w] =
                CASE AlreadyDownloaded(items[wk[w].id], files[wk[w].id]) ->
                       [@ EXCEPT !.pc = "check2", !.status = OK]
                  [] Loaded(items[wk[w].id]) ->
                       [@ EXCEPT !.pc = "dl_fetch"]
                  [] OTHER ->
                       [@ EXCEPT !.pc = "dl_load", !.fresh = TRUE]]
    /\ UNCHANGED <<active, items, queue, retries, ui, calls, removals, limited,
                   files, ever, deletes, session, config, threads, faults,
                   locks, dirs, enq>>

\* _download_work: LOAD_WORK's before-action observer, then the cache read
\* of the _load_work it calls
DlLoad(w) ==
    /\ wk[w].pc = "dl_load"
    /\ wk' = [wk EXCEPT ![w] =
                IF Loaded(items[wk[w].id])
                THEN [@ EXCEPT !.pc = "dl_after", !.status = OK]
                ELSE [@ EXCEPT !.pc = "dl_reload"]]
    /\ UNCHANGED <<active, items, queue, retries, ui, calls, removals, limited,
                   files, ever, deletes, session, config, threads, faults,
                   locks, dirs, enq>>

\* _download_work: LOAD_WORK's after-action observer with the load's status;
\* a status other than OK is returned
DlAfter(w) ==
    /\ wk[w].pc = "dl_after"
    /\ wk' = [wk EXCEPT ![w] =
                [@ EXCEPT !.pc = IF wk[w].status = OK THEN "dl_cancel"
                                 ELSE "check2"]]
    /\ UNCHANGED <<active, items, queue, retries, ui, calls, removals, limited,
                   files, ever, deletes, session, config, threads, faults,
                   locks, dirs, enq>>

\* _download_work: _cancel_retries(work_id, Action.LOAD_WORK)
DlCancel(w) ==
    /\ wk[w].pc = "dl_cancel"
    /\ Joined({<<wk[w].id, LOAD_WORK>>})
    /\ retries' = CancelRetries(retries, <<wk[w].id, LOAD_WORK>>)
    /\ wk' = [wk EXCEPT ![w] = [@ EXCEPT !.pc = "dl_fetch", !.status = "NONE"]]
    /\ UNCHANGED <<active, items, queue, ui, calls, removals, limited, files,
                   ever, deletes, session, config, threads, faults, locks, dirs,
                   enq>>

\* _download_work: the file path from the username of the session of this
\* moment and the title of the handler's WorkItem, then the byte fetch.  The
\* WorkItem the handler made itself is still unloaded after the load it
\* called (that load filled an item of its own): its title raises
\* AttributeError, as does the read of a session attribute that logout has
\* deleted, and the handler reports AttributeError as RETRY.
DlFetch(w) ==
    /\ wk[w].pc = "dl_fetch"
    /\ IF session = "none" \/ TitleRaises(wk[w].fresh)
       THEN /\ wk' = [wk EXCEPT ![w] = [@ EXCEPT !.pc = "check2",
                                                 !.status = RETRY,
                                                 !.fresh = FALSE]]
            /\ limited' = limited
       ELSE \E b \in Bodies :
              /\ limited' = Count(b)
              /\ wk' = [wk EXCEPT ![w] =
                          CASE b = RETRY ->
                                 [@ EXCEPT !.pc = "check2", !.status = RETRY,
                                           !.fresh = FALSE]
                            [] b = ERROR ->
                                 [@ EXCEPT !.pc = "check2", !.status = ERROR,
                                           !.error = STR_E, !.fresh = FALSE]
                            [] OTHER ->
                                 [@ EXCEPT !.pc = "dl_write", !.body = b,
                                           !.dir = session]]
    /\ UNCHANGED <<active, items, queue, retries, ui, calls, removals, files,
                   ever, deletes, session, config, threads, faults, locks, dirs,
                   enq>>

\* _download_work: the content test, the file write, download_path on the
\* handler's WorkItem and its store in the cache; open raises when the
\* directory of the path does not exist
DlWrite(w) ==
    /\ wk[w].pc = "dl_write"
    /\ IF ContentMissing(wk[w].body)
       THEN /\ wk' = [wk EXCEPT ![w] = [@ EXCEPT !.pc = "check2",
                                                 !.status = ERROR,
                                                 !.error = ZERO_BYTES,
                                                 !.body = "NONE",
                                                 !.dir = "none",
                                                 !.fresh = FALSE]]
            /\ UNCHANGED <<files, items, faults>>
       ELSE IF wk[w].dir \notin dirs
       THEN /\ wk' = [wk EXCEPT ![w] = [@ EXCEPT !.pc = "check2",
                                                 !.status = ERROR,
                                                 !.error = STR_E,
                                                 !.body = "NONE",
                                                 !.dir = "none",
                                                 !.fresh = FALSE]]
            /\ UNCHANGED <<files, items, faults>>
       ELSE \/ /\ files' = [files EXCEPT ![wk[w].id] = wk[w].body]
               /\ items' = [items EXCEPT ![wk[w].id] =
                               IF wk[w].fresh THEN "path_unloaded"
                               ELSE "downloaded"]
               /\ wk' = [wk EXCEPT ![w] = [@ EXCEPT !.pc = "check2",
                                                    !.status = OK,
                                                    !.body = "NONE",
                                                    !.dir = "none",
                                                    !.fresh = FALSE]]
               /\ faults' = faults
            \/ /\ faults > 0
               /\ \E f \in WriteFailures(files[wk[w].id]) :
                    files' = [files EXCEPT ![wk[w].id] = f]
               /\ wk' = [wk EXCEPT ![w] = [@ EXCEPT !.pc = "check2",
                                                    !.status = ERROR,
                                                    !.error = STR_E,
                                                    !.body = "NONE",
                                                    !.dir = "none",
                                                    !.fresh = FALSE]]
               /\ faults' = faults - 1
               /\ items' = items
    /\ UNCHANGED <<active, queue, retries, ui, calls, removals, limited, ever,
                   deletes, session, config, threads, locks, dirs, enq>>

\* before-action observer, then _load_works_from_series
RunLoadSeries(w) ==
    /\ wk[w].pc = "run" /\ wk[w].act = LOAD_SERIES
    /\ \E st \in Answers :
         /\ limited' = Count(st)
         /\ wk' = [wk EXCEPT ![w] =
                     IF st = OK /\ SeriesWorks(wk[w].id) # {}
                     THEN [@ EXCEPT !.pc = "ls_add",
                                    !.todo = SeriesWorks(wk[w].id)]
                     ELSE [@ EXCEPT !.pc = "check2", !.status = st,
                                    !.error = IF st = ERROR THEN STR_E
                                              ELSE "NONE"]]
    /\ UNCHANGED <<active, items, queue, retries, ui, calls, removals, files,
                   ever, deletes, session, config, threads, faults, locks, dirs,
                   enq>>

\* _enqueue_work_action of the next work of the list: the Active Set
LsAdd(w) ==
    /\ wk[w].pc = "ls_add"
    /\ active' = active \cup {NextWork(wk[w].todo)}
    /\ ever' = ever \cup {NextWork(wk[w].todo)}
    /\ wk' = [wk EXCEPT ![w] = [@ EXCEPT !.pc = "ls_put"]]
    /\ UNCHANGED <<items, queue, retries, ui, calls, removals, limited, files,
                   deletes, session, config, threads, faults, locks, dirs, enq>>

\* _enqueue_work_action of that work: the queue; after the last work of the
\* list the handler returns OK
LsPut(w) ==
    /\ wk[w].pc = "ls_put"
    /\ queue' = SeriesPut(queue, NextWork(wk[w].todo))
    /\ LET rest == wk[w].todo \ {NextWork(wk[w].todo)}
       IN wk' = [wk EXCEPT ![w] =
                   IF rest = {}
                   THEN [@ EXCEPT !.pc = "check2", !.status = OK,
                                  !.todo = {}]
                   ELSE [@ EXCEPT !.pc = "ls_add", !.todo = rest]]
    /\ UNCHANGED <<active, items, retries, ui, calls, removals, limited, files,
                   ever, deletes, session, config, threads, faults, locks, dirs,
                   enq>>

\* _process_queue: the membership check after the handler, and the branch on
\* the status
\* Mutant: a task that ended with an error is retried as well.
AfterStatusRetryOnError(status) ==
    CASE status = OK -> "cancel"
      [] OTHER -> "compute"

\* Mutant: the retries of a task that ended with an error are cancelled.
AfterStatusCancelOnError(status) ==
    CASE status = RETRY -> "compute"
      [] OTHER -> "cancel"

\* _process_queue: what follows the handler, by its Status
AfterStatus(status) ==
    CASE status = RETRY -> "compute"
      [] status = OK -> "cancel"
      [] OTHER -> "after"

Check2(w) ==
    /\ wk[w].pc = "check2"
    /\ wk' = [wk EXCEPT ![w] =
                IF ~IsWorkIdActive(wk[w].id, wk[w].act) THEN Idle
                ELSE [@ EXCEPT !.pc = AfterStatus(wk[w].status)]]
    /\ UNCHANGED <<active, items, queue, retries, ui, calls, removals, limited,
                   files, ever, deletes, session, config, threads, faults,
                   locks, dirs, enq>>

\* _process_queue: wait_time = _get_seconds_before_retry(identifier, action)
Compute(w) ==
    /\ wk[w].pc = "compute"
    /\ wk' = [wk EXCEPT ![w] =
                [@ EXCEPT !.pc = "arm", !.wait = GetSecondsBeforeRetry(KeyOf(w))]]
    /\ UNCHANGED <<active, items, queue, retries, ui, calls, removals, limited,
                   files, ever, deletes, session, config, threads, faults,
                   locks, dirs, enq>>

\* _process_queue: _retry(identifier, action, wait_time), then the message
\* with wait_time in kwargs["error"]
Arm(w) ==
    /\ wk[w].pc = "arm"
    /\ retries' = Retry(retries, KeyOf(w), wk[w].wait)
    /\ wk' = [wk EXCEPT ![w] = [@ EXCEPT !.pc = "after",
                                         !.error = HIT_RATE_LIMIT]]
    /\ UNCHANGED <<active, items, queue, ui, calls, removals, limited, files,
                   ever, deletes, session, config, threads, faults, locks, dirs,
                   enq>>

\* _process_queue: _cancel_retries(identifier, action) on Status.OK
Cancel(w) ==
    /\ wk[w].pc = "cancel"
    /\ Joined({KeyOf(w)})
    /\ retries' = CancelRetries(retries, KeyOf(w))
    /\ wk' = [wk EXCEPT ![w] = [@ EXCEPT !.pc = "after"]]
    /\ UNCHANGED <<active, items, queue, ui, calls, removals, limited, files,
                   ever, deletes, session, config, threads, faults, locks, dirs,
                   enq>>

\* _process_queue: the after-action observer; back to the head of the loop
After(w) ==
    /\ wk[w].pc = "after"
    /\ wk' = [wk EXCEPT ![w] = Idle]
    /\ UNCHANGED <<active, items, queue, retries, ui, calls, removals, limited,
                   files, ever, deletes, session, config, threads, faults,
                   locks, dirs, enq>>

Worker(w) ==
    \/ Get(w)
    \/ PutSentinel(w)
    \/ Check1(w)
    \/ RunLoadWork(w)
    \/ Reload(w)
    \/ RunDownloadWork(w)
    \/ DlLoad(w)
    \/ DlAfter(w)
    \/ DlCancel(w)
    \/ DlFetch(w)
    \/ DlWrite(w)
    \/ RunLoadSeries(w)
    \/ LsAdd(w)
    \/ LsPut(w)
    \/ Check2(w)
    \/ Compute(w)
    \/ Arm(w)
    \/ Cancel(w)
    \/ After(w)

\* ----------------------------------------------------------------- timers
\* Mutant: the timer ends without putting its task on the queue.
TimerFunctionLost(q, k) == q

\* Mutant: the timer puts a LoadWork task, whatever the action of its key.
TimerFunctionLoadWork(q, k) == EnqueueAction(q, k[1], LOAD_WORK)

\* The function of a retry timer: _enqueue_action(identifier, action)
TimerFunction(q, k) == EnqueueAction(q, k[1], k[2])

\* threading.Timer.run: the wait ended and no cancel() came before it
TimerExpire(k, n) ==
    /\ n \in 1..Len(retries[k])
    /\ retries[k][n].st = "armed"
    /\ retries' = [retries EXCEPT ![k][n].st = "firing"]
    /\ UNCHANGED <<active, items, queue, wk, ui, calls, removals, limited,
                   files, ever, deletes, session, config, threads, faults,
                   locks, dirs, enq>>

\* threading.Timer.run: the call of the function; the thread ends
TimerCall(k, n) ==
    /\ n \in 1..Len(retries[k])
    /\ retries[k][n].st = "firing"
    /\ queue' = TimerFunction(queue, k)
    /\ retries' = [retries EXCEPT ![k][n].st = "done"]
    /\ UNCHANGED <<active, items, wk, ui, calls, removals, limited, files, ever,
                   deletes, session, config, threads, faults, locks, dirs, enq>>

\* A key's list never holds more timers than RETRY statuses were returned.
MaxTimers == MaxRateLimits + MaxCalls + 1

Timer(k) == \E n \in 1..MaxTimers : TimerExpire(k, n) \/ TimerCall(k, n)

\* -------------------------------------------------------------- file system
\* The user deletes a downloaded file while the program runs (the reason
\* _download_work asks download_path.is_file()).
DeleteFile(i) ==
    /\ ui.pc # "stopped" /\ deletes < MaxDeletes
    /\ files[i] # "absent"
    /\ files' = [files EXCEPT ![i] = "absent"]
    /\ deletes' = deletes + 1
    /\ UNCHANGED <<active, items, queue, retries, wk, ui, calls, removals,
                   limited, ever, session, config, threads, faults, locks, dirs,
                   enq>>

Next ==
    \/ Controller
    \/ \E w \in Workers : Worker(w)
    \/ \E k \in Keys : Timer(k)
    \/ \E i \in WorkIds : DeleteFile(i)

Spec == Init /\ [][Next]_vars

\* ------------------------------------------------------------- the session
\* The credentials of a login call: those of an account, and wrong ones.
GoodLogin == 1
BadLogin == 2
Credentials == {GoodLogin, BadLogin}

\* Engine.login: the task ((username, password), Action.LOGIN)
Login(c) ==
    /\ ui.pc = "idle" /\ ui.logins < MaxLogins
    /\ queue' = EnqueueAction(queue, c, LOGIN)
    /\ ui' = [ui EXCEPT !.logins = @ + 1]
    /\ UNCHANGED <<active, items, retries, wk, calls, removals, limited, files,
                   ever, deletes, session, config, threads, faults, locks, dirs,
                   enq>>

\* Engine.logout: del self.session
LogoutDel ==
    /\ ui.pc = "idle" /\ ui.logouts < MaxLogouts
    /\ session' = "none"
    /\ ui' = [ui EXCEPT !.pc = "lo_set", !.logouts = @ + 1]
    /\ UNCHANGED <<active, items, queue, retries, wk, calls, removals, limited,
                   files, ever, deletes, config, threads, faults, locks, dirs,
                   enq>>

\* Engine.logout: self.session = GuestSession()
LogoutSet ==
    /\ ui.pc = "lo_set"
    /\ session' = "guest"
    /\ ui' = [ui EXCEPT !.pc = "idle"]
    /\ UNCHANGED <<active, items, queue, retries, wk, calls, removals, limited,
                   files, ever, deletes, config, threads, faults, locks, dirs,
                   enq>>

\* before-action observer, then _login: self.session = GuestSession()
RunLogin(w) ==
    /\ wk[w].pc = "run" /\ wk[w].act = LOGIN
    /\ session' = "guest"
    /\ wk' = [wk EXCEPT ![w] = [@ EXCEPT !.pc = "lg_session"]]
    /\ UNCHANGED <<active, items, queue, retries, ui, calls, removals, limited,
                   files, ever, deletes, config, threads, faults, locks, dirs,
                   enq>>

\* What Session(username, password) does: it returns ("none") for the
\* credentials of an account, or raises LoginError (wrong credentials),
\* HTTPError or another exception.
SessionOutcomes(c) ==
    {"HTTPError", "Exception"}
        \cup (IF c = GoodLogin THEN {"none"} ELSE {"LoginError"})

\* What refresh_auth_token() does: it returns, or raises HTTPError or
\* another exception.
RefreshOutcomes == {"none", "HTTPError", "Exception"}

\* _login: kwargs["error"] of its except clauses
LoginError(exc) ==
    CASE exc = "HTTPError" -> "You are being rate limited"
      [] exc = "LoginError" -> "Invalid username or password"
      [] OTHER -> STR_E

\* _login: self.session = Session(username, password); the assignment is
\* made when the constructor has returned
LoginSession(w) ==
    /\ wk[w].pc = "lg_session"
    /\ \E exc \in SessionOutcomes(wk[w].id) :
         IF exc = "none"
         THEN /\ session' = "authed"
              /\ wk' = [wk EXCEPT ![w] = [@ EXCEPT !.pc = "lg_refresh"]]
         ELSE /\ session' = session
              /\ wk' = [wk EXCEPT ![w] = [@ EXCEPT !.pc = "lg_after",
                                                   !.status = ERROR,
                                                   !.exc = exc,
                                                   !.error = LoginError(exc)]]
    /\ UNCHANGED <<active, items, queue, retries, ui, calls, removals, limited,
                   files, ever, deletes, config, threads, faults, locks, dirs,
                   enq>>

\* _login: self.session.refresh_auth_token() and the return
LoginRefresh(w) ==
    /\ wk[w].pc = "lg_refresh"
    /\ \E exc \in RefreshOutcomes :
         wk' = [wk EXCEPT ![w] =
                  IF exc = "none"
                  THEN [@ EXCEPT !.pc = "lg_after", !.status = OK]
                  ELSE [@ EXCEPT !.pc = "lg_after", !.status = ERROR,
                                 !.exc = exc, !.error = LoginError(exc)]]
    /\ UNCHANGED <<active, items, queue, retries, ui, calls, removals, limited,
                   files, ever, deletes, session, config, threads, faults,
                   locks, dirs, enq>>

\* _process_queue after _login: Login is no work action and has no retry
\* entry to cancel; the after-action observer runs
AfterLogin(w) ==
    /\ wk[w].pc = "lg_after"
    /\ wk' = [wk EXCEPT ![w] = Idle]
    /\ UNCHANGED <<active, items, queue, retries, ui, calls, removals, limited,
                   files, ever, deletes, session, config, threads, faults,
                   locks, dirs, enq>>

\* The engine with login, logout, and the loading and the download of
\* works.
NextSession ==
    \/ \E c \in Credentials : Login(c)
    \/ LogoutDel
    \/ LogoutSet
    \/ \E i \in WorkIds : LoadWorksFromWorkUrls(i) /\ calls' <= MaxLiveCalls
    \/ \E i \in WorkIds : DownloadWork(i) /\ calls' <= MaxLiveCalls
    \/ \E w \in Workers :
         \/ Get(w)
         \/ Check1(w)
         \/ RunLogin(w)
         \/ LoginSession(w)
         \/ LoginRefresh(w)
         \/ AfterLogin(w)
         \/ RunLoadWork(w)
         \/ Reload(w)
         \/ RunDownloadWork(w)
         \/ DlLoad(w)
         \/ DlAfter(w)
         \/ DlCancel(w)
         \/ DlFetch(w)
         \/ DlWrite(w)
         \/ Check2(w)
         \/ Compute(w)
         \/ Arm(w)
         \/ Cancel(w)
         \/ After(w)
    \/ \E k \in Keys : Timer(k)

SessionSpec == Init /\ [][NextSession]_vars

\* ------------------------------------------------------- the configuration
\* The value of a key of the settings file: an integer, a text that is no
\* integer, or no such key.
FileInts(lo, hi) == {[kind |-> "int", value |-> n] : n \in lo..hi}
FileOther == {[kind |-> "text", value |-> 0], [kind |-> "missing", value |-> 0]}

\* Configuration.parse_from_file: should_use_threading = bool(int(value)),
\* left as it was when int raises
ParseThreading(old, v) == IF v.kind = "int" THEN v.value # 0 ELSE old

\* Configuration.parse_from_file: concurrency_limit = int(value), assigned
\* before the assert on it, whose failure is logged
ParseLimit(old, v) == IF v.kind = "int" THEN v.value ELSE old

\* The Configuration object with its defaults, before the settings file is
\* read and the engine's workers are started.
InitConfig ==
    /\ active = {}
    /\ items = [i \in WorkIds |-> "none"]
    /\ queue = <<>>
    /\ retries = [k \in Keys |-> <<>>]
    /\ wk = [w \in Workers |-> Idle]
    /\ ui = [pc |-> "cfg_new", id |-> 0, stopping |-> FALSE, seen |-> {},
             size |-> 0, alls |-> 0, logins |-> 0, logouts |-> 0,
             ops |-> <<>>]
    /\ calls = 0
    /\ removals = 0
    /\ limited = 0
    /\ files = [i \in WorkIds |-> "absent"]
    /\ ever = {}
    /\ deletes = 0
    /\ session = "guest"
    /\ config = [should_use_threading |-> TRUE,
                 concurrency_limit |-> DEFAULT_CONCURRENCY_LIMIT]
    /\ threads = {}
    /\ faults = 0
    /\ locks = [m \in Mutexes |-> Free]
    /\ dirs = {}
    /\ enq = [t \in {Ui} \cup Workers |-> <<>>]

\* Configuration.parse_from_file: the two keys of the engine section
ParseFromFile ==
    /\ ui.pc = "cfg_new"
    /\ \E t \in FileInts(0, 1) \cup FileOther,
          c \in FileInts(-1, MaxFileLimit) \cup FileOther :
         config' = [should_use_threading |->
                        ParseThreading(config.should_use_threading, t),
                    concurrency_limit |->
                        ParseLimit(config.concurrency_limit, c)]
    /\ ui' = [ui EXCEPT !.pc = "cfg_parsed"]
    /\ UNCHANGED <<active, items, queue, retries, wk, calls, removals, limited,
                   files, ever, deletes, session, threads, faults, locks, dirs,
                   enq>>

\* Engine.__init__: _init_worker_threads(n_workers)
InitWorkerThreads ==
    /\ ui.pc = "cfg_parsed"
    /\ threads' = 1..NWorkers(config)
    /\ ui' = [ui EXCEPT !.pc = "idle"]
    /\ UNCHANGED <<active, items, queue, retries, wk, calls, removals, limited,
                   files, ever, deletes, session, config, faults, locks, dirs,
                   enq>>

NextConfig ==
    \/ ParseFromFile
    \/ InitWorkerThreads

ConfigSpec == InitConfig /\ [][NextConfig]_vars

\* ------------------------------------------------------------- the mutexes
\* LockSpec follows each thread through the mutex operations of the code it
\* runs: an acquire and a release are steps of their own, and so are the
\* start and the join of the retry timers, which happen inside the retry
\* mutex.  What the code does between them is left out, and the branch a
\* thread takes is a free choice.  The joins of the worker threads in
\* stop() are made with no mutex held and are left out as well.
LockThreads == {Ui} \cup Workers

\* The key whose timers the threads of LockSpec start and cancel
LockKey == <<1, LOAD_WORK>>

Op(kind, m) == [op |-> kind, m |-> m]

\* lock.acquire() ... lock.release()
AcqRel(m) == <<Op("acq", m), Op("rel", m)>>

\* _is_work_id_active of a work action, _enqueue_work_action
ActiveOps == AcqRel("active")

\* _get_work_item, _set_work_item
ItemOps == AcqRel("items")

\* _get_seconds_before_retry, then _retry
RetryOps ==
    AcqRel("retries")
        \o <<Op("acq", "retries"), Op("start", "key"), Op("rel", "retries")>>

\* _cancel_retries
CancelOps ==
    <<Op("acq", "retries"), Op("join", "key"), Op("rel", "retries")>>

\* _cancel_all_retries
CancelAllOps ==
    <<Op("acq", "retries"), Op("join", "all"), Op("rel", "retries")>>

RECURSIVE Times(_, _)
Times(ops, n) == IF n = 0 THEN <<>> ELSE ops \o Times(ops, n - 1)

\* Mutant: remove releases the Active-Set mutex after its cancellations.
RemoveOpsNested ==
    <<Op("acq", "active")>> \o ItemOps
        \o Times(CancelOps, Cardinality(Action)) \o <<Op("rel", "active")>>

\* Engine.remove of an id of the Active Set
RemoveOps == ActiveOps \o ItemOps \o Times(CancelOps, Cardinality(Action))

\* Engine.remove of an id that is not in the Active Set: set.remove raises
\* KeyError between the acquire and the release
RemoveRaisesOps == <<Op("acq", "active")>>

\* Engine.remove_all
RemoveAllOps == ActiveOps \o ItemOps \o CancelAllOps

\* Engine.stop
StopOps == RemoveAllOps \o CancelAllOps

\* The public calls that take a mutex; download_work and download_all take
\* the one of _enqueue_work_action.
ControllerOps == {RemoveOps, RemoveRaisesOps, RemoveAllOps, StopOps, ActiveOps}

\* _process_queue after the handler: the second membership check, and then
\* nothing more (ERROR, or the id is gone), _cancel_retries (OK) or the
\* count and the arming of a retry (RETRY, as long as the Archive limits)
TailOps ==
    {ActiveOps, ActiveOps \o CancelOps}
        \cup (IF limited < MaxRateLimits THEN {ActiveOps \o RetryOps} ELSE {})

\* _process_queue up to the end of the handler: the first membership check,
\* then _load_work (cache read, cache write), _download_work (cache read,
\* the load, its cancellation, cache write) or _load_works_from_series (one
\* _enqueue_work_action per work, no membership check)
HandlerOps ==
    {ActiveOps \o ItemOps \o ItemOps,
     ActiveOps \o ItemOps \o ItemOps \o ItemOps \o CancelOps \o ItemOps,
     Times(ActiveOps, Cardinality(SeriesWorks(1)))}

LockOps(t) == IF t = Ui THEN ui.ops ELSE wk[t].ops

\* The thread t goes on to its next operation.
LockPop(t) ==
    IF t = Ui
    THEN ui' = [ui EXCEPT !.ops = Tail(@)] /\ wk' = wk
    ELSE wk' = [wk EXCEPT ![t] = [@ EXCEPT !.ops = Tail(@)]] /\ ui' = ui

\* The controller begins a public call.
LockCall ==
    /\ ui.ops = <<>>
    /\ \E ops \in ControllerOps : ui' = [ui EXCEPT !.ops = ops]
    /\ UNCHANGED <<active, items, queue, retries, wk, calls, removals, limited,
                   files, ever, deletes, session, config, threads, faults,
                   locks, dirs, enq>>

\* A worker begins a task.
LockTask(w) ==
    /\ wk[w].ops = <<>>
    /\ \E h \in HandlerOps, e \in TailOps :
         /\ wk' = [wk EXCEPT ![w] = [@ EXCEPT !.ops = h \o e]]
         /\ limited' = IF e = ActiveOps \o RetryOps THEN limited + 1
                        ELSE limited
    /\ UNCHANGED <<active, items, queue, retries, ui, calls, removals, files,
                   ever, deletes, session, config, threads, faults, locks, dirs,
                   enq>>

\* threading.Lock.acquire: the thread waits until the mutex is free
Acquire(t) ==
    /\ LockOps(t) # <<>> /\ Head(LockOps(t)).op = "acq"
    /\ locks[Head(LockOps(t)).m] = Free
    /\ locks' = [locks EXCEPT ![Head(LockOps(t)).m] = t]
    /\ LockPop(t)
    /\ UNCHANGED <<active, items, queue, retries, calls, removals, limited,
                   files, ever, deletes, session, config, threads, faults, dirs,
                   enq>>

\* threading.Lock.release
Release(t) ==
    /\ LockOps(t) # <<>> /\ Head(LockOps(t)).op = "rel"
    /\ locks' = [locks EXCEPT ![Head(LockOps(t)).m] = Free]
    /\ LockPop(t)
    /\ UNCHANGED <<active, items, queue, retries, calls, removals, limited,
                   files, ever, deletes, session, config, threads, faults, dirs,
                   enq>>

\* _retry: Timer(...).start() and the entry in the retry table
TimerStart(t) ==
    /\ LockOps(t) # <<>> /\ Head(LockOps(t)).op = "start"
    /\ retries' = Retry(retries, LockKey, GetSecondsBeforeRetry(LockKey))
    /\ LockPop(t)
    /\ UNCHANGED <<active, items, queue, calls, removals, limited, files, ever,
                   deletes, session, config, threads, faults, locks, dirs, enq>>

\* _cancel_retries, _cancel_all_retries: cancel() and join() of the timers
TimerJoin(t) ==
    /\ LockOps(t) # <<>> /\ Head(LockOps(t)).op = "join"
    /\ IF Head(LockOps(t)).m = "all"
       THEN Joined(Keys) /\ retries' = CancelAllRetries(retries)
       ELSE Joined({LockKey}) /\ retries' = CancelRetries(retries, LockKey)
    /\ LockPop(t)
    /\ UNCHANGED <<active, items, queue, calls, removals, limited, files, ever,
                   deletes, session, config, threads, faults, locks, dirs, enq>>

NextLock ==
    \/ LockCall
    \/ \E w \in Workers : LockTask(w)
    \/ \E t \in LockThreads :
         \/ Acquire(t)
         \/ Release(t)
         \/ TimerStart(t)
         \/ TimerJoin(t)
    \/ \E k \in Keys : Timer(k)

LockSpec == Init /\ [][NextLock]_vars

\* The engine with one worker, the download_all call and a disk that can
\* fail.
NextSingle ==
    \/ Next
    \/ DownloadAllIter
    \/ DownloadAllNext

SingleSpec == InitSingle /\ [][NextSingle]_vars

\* The controller inside a public call (not idle between two calls)
ControllerRunning == Controller /\ ui.pc # "idle"

\* A run with one load or download call; threads that can step do step, and
\* a public call that has begun runs on (the user is free never to call).
NextLive ==
    \/ Controller /\ calls' <= MaxLiveCalls
    \/ \E w \in Workers : Worker(w)
    \/ \E k \in Keys : Timer(k)
    \/ \E i \in WorkIds : DeleteFile(i)

LiveSpec ==
    /\ Init /\ [][NextLive]_vars
    /\ \A w \in Workers : WF_vars(Worker(w))
    /\ \A k \in Keys : WF_vars(Timer(k))
    /\ WF_vars(ControllerRunning)

\* ---------------------------------------------------------------- listings
\* A listing task is identified by <<page_start, page_end>> and a page task
\* by <<page>> (the URL is the one of a single listing).  The pages of the
\* listing hold no works here: what a handler does with works is in Spec.
Max(a, b) == IF a >= b THEN a ELSE b
Min(a, b) == IF a <= b THEN a ELSE b

\* Engine.load_works_from_generic_url
LoadWorksFromGenericUrl(page_start, page_end) ==
    /\ ui.pc = "idle" /\ calls < MaxListCalls
    /\ queue' = IF page_start = page_end
                THEN EnqueueAction(queue, <<page_start>>, LOAD_RESULTS_PAGE)
                ELSE EnqueueAction(queue, <<page_start, page_end>>,
                                   LOAD_RESULTS_LIST)
    /\ calls' = calls + 1
    /\ UNCHANGED <<active, items, retries, wk, ui, removals, limited, files,
                   ever, deletes, session, config, threads, faults, locks, dirs,
                   enq>>

\* The Archive shows the pages navigation bar on a listing of several pages.
HasPaginationBar(total) == total >= 2

\* Results.update on a listing of total pages: pages and page_end afterwards
ResultsUpdate(page_end, total) ==
    IF ~HasPaginationBar(total)
    THEN [pages |-> 1, page_end |-> page_end]
    ELSE [pages |-> total,
          page_end |-> IF page_end = 0 THEN total ELSE page_end]

\* _load_pages_from_results_list: Results(url, page_start, page_end) and
\* results.update(), or an exception of the request
ProbeResults(w) ==
    /\ wk[w].pc = "run" /\ wk[w].act = LOAD_RESULTS_LIST
    /\ \/ \E total \in 1..MaxPage :
            LET r == ResultsUpdate(wk[w].id[2], total)
            IN wk' = [wk EXCEPT ![w] =
                        [@ EXCEPT !.pc = "rl_enqueue", !.pages = r.pages,
                                  !.page_end = r.page_end]]
       \/ wk' = [wk EXCEPT ![w] =
                   [@ EXCEPT !.pc = "rl_after", !.status = ERROR,
                             !.error = STR_E]]
    /\ UNCHANGED <<active, items, queue, retries, ui, calls, removals, limited,
                   files, ever, deletes, session, config, threads, faults,
                   locks, dirs, enq>>

\* range(a, b) of LOAD_RESULTS_PAGE tasks, put on the queue in order
RECURSIVE EnqueueRange(_, _, _)
EnqueueRange(q, a, b) ==
    IF a >= b THEN q
    ELSE EnqueueRange(EnqueueAction(q, <<a>>, LOAD_RESULTS_PAGE), a + 1, b)

\* max(1, results.page_start)
RangeStart(page_start) == Max(1, page_start)

\* Mutant: the last page of the range is left out.
RangeStopExclusive(pages, page_end) == Min(pages, page_end)

\* min(results.pages, results.page_end) + 1
RangeStop(pages, page_end) == Min(pages, page_end) + 1

\* _load_pages_from_results_list: the loop over the page range; Status.OK
EnqueuePages(w) ==
    /\ wk[w].pc = "rl_enqueue"
    /\ queue' = EnqueueRange(queue, RangeStart(wk[w].id[1]),
                             RangeStop(wk[w].pages, wk[w].page_end))
    /\ wk' = [wk EXCEPT ![w] = [@ EXCEPT !.pc = "rl_after", !.status = OK]]
    /\ UNCHANGED <<active, items, retries, ui, calls, removals, limited, files,
                   ever, deletes, session, config, threads, faults, locks, dirs,
                   enq>>

\* _load_works_from_results_page, for a page that lists no works
RunLoadResultsPage(w) ==
    /\ wk[w].pc = "run" /\ wk[w].act = LOAD_RESULTS_PAGE
    /\ \E st \in {OK, ERROR} :
         wk' = [wk EXCEPT ![w] =
                  [@ EXCEPT !.pc = "rl_after", !.status = st,
                            !.error = IF st = ERROR THEN STR_E ELSE "NONE"]]
    /\ UNCHANGED <<active, items, queue, retries, ui, calls, removals, limited,
                   files, ever, deletes, session, config, threads, faults,
                   locks, dirs, enq>>

\* _process_queue after a listing handler: the second check passes, a key
\* that never had a retry has nothing to cancel, the after-action observer
AfterResults(w) ==
    /\ wk[w].pc = "rl_after"
    /\ wk' = [wk EXCEPT ![w] = Idle]
    /\ UNCHANGED <<active, items, queue, retries, ui, calls, removals, limited,
                   files, ever, deletes, session, config, threads, faults,
                   locks, dirs, enq>>

NextResults ==
    \/ \E s, e \in 0..MaxPage : LoadWorksFromGenericUrl(s, e)
    \/ \E w \in Workers :
         \/ Get(w)
         \/ Check1(w)
         \/ ProbeResults(w)
         \/ EnqueuePages(w)
         \/ RunLoadResultsPage(w)
         \/ AfterResults(w)

ResultsSpec == Init /\ [][NextResults]_vars

\* -------------------------------------------------- the enqueue callbacks
\* EnqueueSpec follows the controller through a public call that puts a task
\* on the queue, one step per event of the call: the directory check, the
\* add to the Active Set, the before-enqueue callback, the put and the
\* after-enqueue callback.  enq holds the task whose before-enqueue callback
\* a thread has called and whose after-enqueue callback it has not called
\* yet.  Workers and timers take their steps as in Spec.
Ev(kind, id, act) == [ev |-> kind, id |-> id, act |-> act]

\* Engine._enqueue_action: the put, between the two enqueue callbacks of the
\* action when run_callbacks is set
EnqueueActionOps(id, act, run_callbacks) ==
    IF run_callbacks
    THEN <<Ev("before_enqueue", id, act), Ev("put", id, act),
           Ev("after_enqueue", id, act)>>
    ELSE <<Ev("put", id, act)>>

\* Engine._enqueue_work_action: the add, then _enqueue_action with
\* run_callbacks=True
EnqueueWorkActionOps(id, act) ==
    <<Ev("add", id, act)>> \o EnqueueActionOps(id, act, TRUE)

\* The public calls that enqueue: load_works_from_work_urls, download_work,
\* load_works_from_series_urls and login; the last two call _enqueue_action
\* with its default run_callbacks=False
EnqueueCalls ==
    {EnqueueWorkActionOps(i, LOAD_WORK) : i \in WorkIds}
        \cup {<<Ev("mkdir", i, DOWNLOAD_WORK)>>
                  \o EnqueueWorkActionOps(i, DOWNLOAD_WORK) : i \in WorkIds}
        \cup {EnqueueActionOps(s, LOAD_SERIES, FALSE) : s \in SeriesIds}
        \cup {EnqueueActionOps(c, LOGIN, FALSE) : c \in Credentials}

\* The controller begins a public call that enqueues.
EnqueueCall ==
    /\ ui.ops = <<>> /\ calls < MaxCalls
    /\ \E ops \in EnqueueCalls : ui' = [ui EXCEPT !.ops = ops]
    /\ calls' = calls + 1
    /\ UNCHANGED <<active, items, queue, retries, wk, removals, limited,
                   files, ever, deletes, session, config, threads, faults,
                   locks, dirs, enq>>

\* The controller goes on to the next event of its call.
EnqueueStep ==
    /\ ui.ops # <<>>
    /\ LET e == Head(ui.ops)
       IN /\ dirs' = IF e.ev = "mkdir"
                     THEN VerifyDownloadDirectoryExists(dirs, session)
                     ELSE dirs
          /\ active' = IF e.ev = "add" THEN active \cup {e.id} ELSE active
          /\ ever' = IF e.ev = "add" THEN ever \cup {e.id} ELSE ever
          /\ queue' = IF e.ev = "put" THEN EnqueueAction(queue, e.id, e.act)
                      ELSE queue
          /\ enq' = CASE e.ev = "before_enqueue" ->
                            [enq EXCEPT ![Ui] = <<e.id, e.act>>]
                       [] e.ev = "after_enqueue" -> [enq EXCEPT ![Ui] = <<>>]
                       [] OTHER -> enq
    /\ ui' = [ui EXCEPT !.ops = Tail(@)]
    /\ UNCHANGED <<items, retries, wk, calls, removals, limited, files,
                   deletes, session, config, threads, faults, locks>>

NextEnqueue ==
    \/ EnqueueCall
    \/ EnqueueStep
    \/ \E w \in Workers :
         \/ Get(w)
         \/ Check1(w)
         \/ RunLoadWork(w)
         \/ Reload(w)
         \/ RunDownloadWork(w)
         \/ DlLoad(w)
         \/ DlAfter(w)
         \/ DlCancel(w)
         \/ DlFetch(w)
         \/ DlWrite(w)
         \/ RunLoadSeries(w)
         \/ LsAdd(w)
         \/ LsPut(w)
         \/ Check2(w)
         \/ Compute(w)
         \/ Arm(w)
         \/ Cancel(w)
         \/ After(w)
         \/ RunLogin(w)
         \/ LoginSession(w)
         \/ LoginRefresh(w)
         \/ AfterLogin(w)
    \/ \E k \in Keys : Timer(k)

EnqueueSpec == Init /\ [][NextEnqueue]_vars

\* ================================================================= claims
Stepped(w) == wk'[w].pc # wk[w].pc
IsWorkTask(w) == wk[w].act \in WorkActions
Pending(t) == t.st \in {"armed", "firing"}
AllDone == \A w \in threads : wk[w].pc = "done"
SentinelQueued == \E n \in 1..Len(queue) : queue[n][2] = SENTINEL
RetryKeys == Identifiers \X {LOAD_WORK, DOWNLOAD_WORK, LOAD_SERIES}

\* C1 (as stated): a LoadWork / DownloadWork task whose id is not in the
\* Active Set at the moment a worker dequeues it is dropped: the worker goes
\* back to the queue without running the handler or the after-action observer.
C1_DroppedIfInactiveAtDequeue ==
    [][\A w \in Workers :
         (wk[w].pc = "check1" /\ ~wk[w].deq /\ Stepped(w))
            => wk'[w].pc = "get"]_vars

\* C1 (amended): a LoadWork / DownloadWork task whose id is not in the Active
\* Set when the worker makes its membership check after the dequeue is
\* dropped: no handler, no after-action observer, no retry for that task.
C1_DroppedIfInactiveAtCheck ==
    [][\A w \in Workers :
         (wk[w].pc = "check1" /\ IsWorkTask(w) /\ wk[w].id \notin active
            /\ Stepped(w))
            => (wk'[w] = Idle /\ retries' = retries /\ queue' = queue)]_vars

\* C1 witness: a worker holds a dequeued work task at its membership check
\* and the id is not in the Active Set (it was not at the dequeue either).
C1_Witness ==
    \E w \in Workers :
        /\ wk[w].pc = "check1" /\ IsWorkTask(w)
        /\ wk[w].id \notin active /\ ~wk[w].deq

\* remove(i) or remove_all() has returned and i was not added again
Removed(i) ==
    /\ i \notin active
    /\ ui.pc \notin {"rm_items", "rm_cancel", "ra_items", "ra_cancel"}

\* C2: once a work id has left the Active Set and the removal has returned,
\* no worker starts a handler (its own or the LoadWork that DownloadWork
\* calls) or an after-action observer for a task of that id.
C2_NoHonorAfterRemoval ==
    [][\A w \in Workers :
         (IsWorkTask(w) /\ Removed(wk[w].id)
            /\ wk[w].pc \in {"run", "dl_load", "dl_after", "after"})
            => ~Stepped(w)]_vars

\* C3: when an after-action observer called with Status OK returns, the
\* retry table has no entry for the observer's key; the LoadWork observer
\* that DownloadWork calls reports for the key (id, LoadWork).
C3_NoRetryAfterOk ==
    [][\A w \in Workers :
         /\ (wk[w].pc = "after" /\ wk[w].status = OK /\ Stepped(w))
               => retries'[KeyOf(w)] = <<>>
         /\ (wk[w].pc = "dl_after" /\ wk[w].status = OK /\ Stepped(w))
               => retries'[<<wk[w].id, LOAD_WORK>>] = <<>>]_vars

\* C4: the N-th timer (0-indexed) of a key's retry list has a delay of
\* INITIAL_SECONDS_BEFORE_RETRY << N, and a worker about to arm the N-th
\* timer holds that delay (the one it writes into the error message).
C4_DelayIsInitialShiftedByN ==
    /\ \A k \in Keys : \A n \in 1..Len(retries[k]) :
           retries[k][n].delay = INITIAL_SECONDS_BEFORE_RETRY * Shl(n - 1)
    /\ \A w \in Workers :
           wk[w].pc = "arm" =>
               wk[w].wait =
                   INITIAL_SECONDS_BEFORE_RETRY * Shl(Len(retries[KeyOf(w)]))

\* C5: the delays of the timers of one key are strictly increasing in the
\* order in which they were appended.
C5_DelaysStrictlyIncreasing ==
    \A k \in Keys : \A m, n \in 1..Len(retries[k]) :
        m < n => retries[k][m].delay < retries[k][n].delay

\* C6: a RETRY status of a task that is still honored arms a timer for the
\* task's key; an armed timer is either cancelled (its key deleted) or it
\* ends by putting exactly its own (identifier, action) on the action queue;
\* the worker arms without any limit on the number of timers of the key.
C6_RetryNeverTerminal ==
    /\ [][\A w \in Workers :
            (wk[w].pc = "arm" /\ Stepped(w)) =>
                /\ Len(retries'[KeyOf(w)]) = Len(retries[KeyOf(w)]) + 1
                /\ retries'[KeyOf(w)][Len(retries'[KeyOf(w)])].st = "armed"]_vars
    /\ [][\A k \in RetryKeys : \A n \in 1..Len(retries[k]) :
            (Pending(retries[k][n]) /\ Len(retries'[k]) >= n
               /\ retries'[k][n].st = "done")
               => queue' = Append(queue, k)]_vars
    /\ \A w \in Workers : (wk[w].pc = "compute") ~> (wk[w].pc = "after")
    /\ \A k \in RetryKeys : \A n \in 1..MaxTimers :
           (Len(retries[k]) >= n /\ retries[k][n].st = "armed")
              ~> (Len(retries[k]) < n \/ retries[k][n].st = "done")

\* C6 witness: a timer has ended and its key is back on the action queue,
\* after a second rate-limit answer for a key.
C6_Witness ==
    \E k \in RetryKeys :
        /\ Len(retries[k]) >= 2
        /\ retries[k][2].st = "done"
        /\ \E n \in 1..Len(queue) : queue[n] = k

\* C7: after remove(i) has returned and while i is not added again, no timer
\* of a key (i, LoadWork) or (i, DownloadWork) is armed or firing.
C7_NoTimerAfterRemove ==
    \A i \in WorkIds :
        (i \notin active /\ ui.pc = "idle") =>
            \A a \in WorkActions : \A n \in 1..Len(retries[<<i, a>>]) :
                ~Pending(retries[<<i, a>>][n])

\* C8: after stop() has returned nothing happens any more: no worker and no
\* timer takes a step, so no callback and no handler runs and nothing is put
\* on the action queue.
C8_QuietAfterStop ==
    [][ui.pc = "stopped" => UNCHANGED vars]_vars

\* C8 witness: stop() has returned while tasks other than the sentinel are
\* still on the queue and rate limits had armed timers.
C8_Witness ==
    /\ ui.pc = "stopped"
    /\ limited > 0
    /\ \E n \in 1..Len(queue) : queue[n][2] # SENTINEL

\* C9: when stop() returns every worker has terminated and the retry table
\* is empty.
C9_StopDrains ==
    ui.pc = "stopped" => (AllDone /\ \A k \in Keys : retries[k] = <<>>)

\* C9 witness: stop() is past the cancellation pass of remove_all() and a
\* timer, armed by a worker after that pass, is pending.
C9_Witness ==
    /\ ui.pc \in {"st_join", "st_cancel"}
    /\ \E k \in Keys : \E n \in 1..Len(retries[k]) : retries[k][n].st = "armed"

C11_EmptyAfterStop ==
    ui.pc = "stopped" =>
        (active = {} /\ \A i \in WorkIds : items[i] = "none")

\* A worker inside work.reload(): it read the cache, found no loaded item for
\* the id and fetches the metadata.
Fetching(w, i) == wk[w].pc = "reload" /\ wk[w].id = i

\* C12 (as stated, its part on fetches): with no removal and no rate limit so
\* far, no two LoadWork tasks of one id are both fetching the metadata of
\* that id (at most one metadata fetch per id).
C12_AtMostOneFetch ==
    (removals = 0 /\ ~ui.stopping /\ limited = 0) =>
        \A i \in WorkIds : \A v, w \in Workers :
            (Fetching(v, i) /\ Fetching(w, i)) => v = w

\* C13: a DownloadWork handler that finds download_path set on the cached
\* WorkItem and the file present returns OK at once: no metadata fetch, no
\* byte fetch, no file written, the cache entry unchanged.
C13_SkipWhenDownloaded ==
    [][\A w \in Workers :
         (wk[w].pc = "run" /\ wk[w].act = DOWNLOAD_WORK /\ Stepped(w)
            /\ HasPath(items[wk[w].id]) /\ files[wk[w].id] # "absent")
            => /\ wk'[w].pc = "check2" /\ wk'[w].status = OK
               /\ items' = items /\ files' = files
               /\ limited' = limited]_vars

\* C13 witness: a worker starts the DownloadWork handler for an id whose
\* cached WorkItem has download_path set and whose file is on the disk.
C13_Witness ==
    \E w \in Workers :
        /\ wk[w].pc = "run" /\ wk[w].act = DOWNLOAD_WORK
        /\ items[wk[w].id] = "downloaded" /\ files[wk[w].id] = "full"

\* C14 (as stated): whenever the DownloadWork handler returns OK, the cached
\* WorkItem has download_path set and the file is on the disk with a size
\* > 0.
C14_OkMeansFileWritten ==
    [][\A w \in Workers :
         (wk[w].act = DOWNLOAD_WORK /\ wk[w].pc \in {"run", "dl_write"}
            /\ Stepped(w) /\ wk'[w].status = OK)
            => (HasPath(items'[wk[w].id]) /\ files'[wk[w].id] = "full")]_vars

\* C14 witness: the handler has written the file of a body with content and
\* returned OK.
C14_Witness ==
    \E w \in Workers :
        /\ wk[w].pc = "check2" /\ wk[w].act = DOWNLOAD_WORK
        /\ wk[w].status = OK
        /\ files[wk[w].id] = "full" /\ deletes = 0 /\ calls = 1

\* C15: when the byte fetch returned an empty body the handler returns ERROR
\* with the error "Downloaded 0 bytes", writes no file and leaves the cache
\* entry as it was, and the worker schedules no retry for it.
C15_EmptyBodyIsError ==
    [][\A w \in Workers :
         /\ (wk[w].pc = "dl_write" /\ wk[w].body = "empty" /\ Stepped(w))
               => /\ wk'[w].status = ERROR /\ wk'[w].error = ZERO_BYTES
                  /\ files' = files /\ items' = items
         /\ (wk[w].error = ZERO_BYTES /\ Stepped(w))
               => (retries' = retries /\ wk'[w].pc \in {"after", "get"})]_vars

\* C15 witness: the after-action observer is about to run for a download
\* that got an empty body.
C15_Witness ==
    \E w \in Workers :
        /\ wk[w].pc = "after" /\ wk[w].error = ZERO_BYTES
        /\ wk[w].status = ERROR /\ files[wk[w].id] = "absent"

\* C16: every WorkItem of the Work Cache that has download_path set is
\* loaded, and whenever a step stores an item with download_path set the file
\* is on the disk.
C16_PathImpliesLoaded ==
    /\ [](\A i \in WorkIds : HasPath(items[i]) => Loaded(items[i]))
    /\ [][\A i \in WorkIds :
            (items'[i] # items[i] /\ HasPath(items'[i]))
               => files'[i] = "full"]_vars

\* C16 witness: a download was stored for an id whose DownloadWork ran with
\* no cache entry before (its RETRY, not a rate limit, armed the timer that
\* is still listed).
C16_Witness ==
    \E w \in Workers :
        /\ wk[w].pc = "check2" /\ wk[w].act = DOWNLOAD_WORK
        /\ wk[w].status = OK /\ items[wk[w].id] = "downloaded"
        /\ limited = 0 /\ retries[KeyOf(w)] # <<>>

\* C17: every id with an entry in the Work Cache was in the Active Set at
\* some earlier time; a worker runs a LoadWork / DownloadWork handler only
\* for an id that was active at its check, also when a retry timer had put
\* the task on the queue; only such a handler writes the entry of its id.
C17_CacheImpliesEverActive ==
    /\ [](\A i \in WorkIds : items[i] # "none" => i \in ever)
    /\ [](\A w \in Workers :
            (IsWorkTask(w) /\ wk[w].pc \notin {"get", "check1"})
               => wk[w].id \in ever)
    /\ [][\A w \in Workers :
            (wk[w].pc = "check1" /\ IsWorkTask(w) /\ wk'[w].pc = "run")
               => wk[w].id \in active]_vars
    /\ [][\A i \in WorkIds :
            (items'[i] # items[i] /\ items'[i] # "none")
               => \E w \in Workers :
                    Stepped(w) /\ IsWorkTask(w) /\ wk[w].id = i]_vars

\* C17 witness: a cache entry written by the handler of a task that a retry
\* timer had put back on the queue.
C17_Witness ==
    \E i \in WorkIds :
        /\ items[i] = "loaded"
        /\ Len(retries[<<i, LOAD_WORK>>]) >= 1
        /\ retries[<<i, LOAD_WORK>>][1].st = "done"
        /\ \E w \in Workers : wk[w].pc = "check2" /\ KeyOf(w) = <<i, LOAD_WORK>>

PageTasks(lo, hi) ==
    IF hi < lo THEN <<>>
    ELSE [n \in 1..(hi - lo + 1) |-> <<<<lo + n - 1>>, LOAD_RESULTS_PAGE>>]

\* C19 (as stated): a LoadResultsList task (start, 0) with start >= 1 on a
\* listing of T >= 1 pages puts one LoadResultsPage task on the queue for
\* each page from start to T.
C19_AllPagesFromStart ==
    [][\A w \in Workers :
         (wk[w].pc = "rl_enqueue" /\ Stepped(w)
            /\ wk[w].id[2] = 0 /\ wk[w].id[1] >= 1)
            => queue' = queue \o PageTasks(wk[w].id[1], wk[w].pages)]_vars

\* C20: a LoadResultsList task (start, end) with end > 0 on a listing probed
\* with T pages returns OK and puts exactly the LoadResultsPage tasks of the
\* pages max(1, start) .. min(T, end) on the queue, in ascending order.
C20_PagesInRange ==
    [][\A w \in Workers :
         (wk[w].pc = "rl_enqueue" /\ Stepped(w) /\ wk[w].id[2] > 0)
            => /\ wk'[w].status = OK
               /\ queue' = queue \o PageTasks(Max(1, wk[w].id[1]),
                                              Min(wk[w].pages, wk[w].id[2]))]_vars

\* C20 witness: the task (1, 2) on a listing of three pages has put the
\* tasks of pages 1 and 2 on the queue.
C20_Witness ==
    \E w \in Workers :
        /\ wk[w].pc = "rl_after" /\ wk[w].act = LOAD_RESULTS_LIST
        /\ wk[w].id = <<1, 2>> /\ wk[w].pages = 3 /\ wk[w].status = OK
        /\ queue = PageTasks(1, 2)

C22_WorkersClamped ==
    (ui.pc = "idle")
        => /\ Cardinality(threads) =
                 IF ~config.should_use_threading
                    \/ config.concurrency_limit = 1
                 THEN 1
                 ELSE Min(Max(config.concurrency_limit, 1), MAX_CONCURRENCY)
           /\ Cardinality(threads) >= 1
           /\ Cardinality(threads) <= MAX_CONCURRENCY

\* C23: with concurrency_limit 1, threading on or off, one worker is
\* started; at most one handler runs at any time, and the worker always
\* takes the task that was put on the queue first.
C23_OneHandlerInOrder ==
    /\ [](config.concurrency_limit = 1 => Cardinality(threads) = 1)
    /\ [](\A v, w \in Workers :
            (wk[v].pc \notin {"get", "done"}
               /\ wk[w].pc \notin {"get", "done"}) => v = w)
    /\ [][\A w \in Workers :
            (wk[w].pc = "get" /\ Stepped(w))
               => /\ queue # <<>> /\ queue' = Tail(queue)
                  /\ IF Head(queue)[2] = SENTINEL
                     THEN wk'[w].pc = "sentinel"
                     ELSE <<wk'[w].id, wk'[w].act>> = Head(queue)]_vars

\* C23 witness: with threading on and concurrency_limit 1 the worker runs a
\* handler while two more tasks wait on the queue.
C23_Witness ==
    /\ config.should_use_threading /\ config.concurrency_limit = 1
    /\ \E w \in Workers : wk[w].pc = "run"
    /\ Len(queue) = 2 /\ queue[1] # queue[2]

\* C24 (as stated): whenever the Login handler returns ERROR the engine's
\* session is a guest session.
C24_GuestAfterLoginError ==
    [][\A w \in Workers :
         (wk[w].act = LOGIN /\ Stepped(w) /\ wk'[w].pc = "lg_after"
            /\ wk'[w].status = ERROR)
            => session' = "guest"]_vars

\* C25 (as stated): a worker that is about to read the engine's session
\* finds one, guest or authenticated.
C25_AlwaysOneSession ==
    \A w \in Workers :
        (wk[w].pc = "reload") => session \in {"guest", "authed"}

\* C26: when the reload of a LoadWork or of the load step of a DownloadWork
\* hits a restricted work (only under a guest session), the handler returns
\* ERROR with the login-required message; the cache, the files and the retry
\* table stay as they are at that step and at every later step of the
\* task, which arms no timer and fetches no bytes.
C26_RestrictedIsError ==
    [][\A w \in Workers :
         /\ (wk[w].pc \in {"reload", "dl_reload"} /\ Stepped(w)
               /\ wk'[w].exc = "AuthError")
               => /\ session = "guest"
                  /\ wk'[w].status = ERROR
                  /\ wk'[w].error = AUTH_REQUIRED
                  /\ items' = items /\ files' = files
                  /\ retries' = retries
         /\ (wk[w].exc = "AuthError" /\ Stepped(w))
               => /\ items' = items /\ files' = files
                  /\ retries' = retries
                  /\ wk'[w].pc \in {"dl_after", "check2", "after", "get"}]_vars

\* C26 witness: the load step of a DownloadWork has hit a restricted work
\* and the handler is about to return its ERROR.
C26_Witness ==
    \E w \in Workers :
        /\ wk[w].pc = "dl_after" /\ wk[w].act = DOWNLOAD_WORK
        /\ wk[w].exc = "AuthError" /\ wk[w].status = ERROR
        /\ session = "guest"

\* C27: a handler that ends with an exception that is no rate limit returns
\* ERROR with the exception's message; that step changes neither the cache
\* nor the Active Set nor the retry table nor the queue; afterwards the
\* worker arms no timer, cancels none and goes back to take the next task.
C27_ExceptionIsError ==
    [][\A w \in Workers :
         /\ (Stepped(w) /\ wk[w].status # ERROR /\ wk'[w].status = ERROR
               /\ wk'[w].error = STR_E)
               => /\ items' = items /\ active' = active
                  /\ retries' = retries /\ queue' = queue
         /\ (wk[w].status = ERROR /\ wk[w].error = STR_E /\ Stepped(w))
               => /\ retries' = retries
                  /\ wk'[w].pc \in {"dl_after", "check2", "after", "get"}]_vars

\* C27 witness: the after-action observer is about to run for a task that
\* ended with an exception, and the next task waits on the queue.
C27_Witness ==
    \E w \in Workers :
        /\ wk[w].pc = "after" /\ wk[w].status = ERROR
        /\ wk[w].error = STR_E /\ queue # <<>>

\* C28 (as stated): when creating or writing the file fails the handler
\* returns ERROR and no truncated or partial file is at the target path.
C28_NoFileAfterFailedWrite ==
    [][\A w \in Workers :
         (wk[w].pc = "dl_write" /\ Stepped(w) /\ wk'[w].status = ERROR
            /\ wk'[w].error = STR_E)
            => files'[wk[w].id] \notin {"empty", "partial"}]_vars

\* C29 (as stated): while download_all iterates the Active Set no other
\* thread changes it.
C29_NoChangeWhileIterating ==
    [][(ui.pc = "da_next" /\ ui' = ui) => active' = active]_vars

\* The mutexes the thread t holds
Held(t) == {m \in Mutexes : locks[m] = t}

\* C30: no thread holds two of the three mutexes at a time; a thread that
\* is about to acquire a mutex holds no other one, so that no two threads
\* wait for each other's mutex; the retry mutex is only acquired by a
\* thread that holds none.
C30_OneMutexAtATime ==
    \A t \in LockThreads :
        /\ Cardinality(Held(t)) <= 1
        /\ (LockOps(t) # <<>> /\ Head(LockOps(t)).op = "acq")
              => /\ Held(t) \subseteq {Head(LockOps(t)).m}
                 /\ (Head(LockOps(t)).m = "retries" => Held(t) = {})

\* C30 witness: the controller cancels timers inside remove, holding the
\* retry mutex, while one worker holds the cache mutex and the other waits
\* for the retry mutex.
C30_Witness ==
    /\ locks["retries"] = Ui /\ Head(ui.ops).op = "join"
    /\ \E v, w \in Workers :
         /\ locks["items"] = v
         /\ wk[w].ops # <<>> /\ Head(wk[w].ops) = Op("acq", "retries")

\* C32 (as stated): after the settings file is parsed, concurrency_limit is
\* an integer >= 1; a value of the file that is smaller than 1 is rejected
\* and the default is kept.
C32_LimitAtLeastOne ==
    (ui.pc \in {"cfg_parsed", "idle"}) => config.concurrency_limit >= 1

\* C33 (as stated): when a call of remove has returned or raised, also for
\* an id that is not in the Active Set, the controller does not hold the
\* Active-Set mutex, so no later acquire of it waits for ever.
C33_MutexFreeAfterRemove ==
    (ui.ops = <<>>) => locks["active"] # Ui

\* C34 (as stated): a DownloadWork handler that found no cache entry and
\* whose own LoadWork step returned OK goes on to the byte fetch in the same
\* attempt: it ends that attempt with RETRY only when the Archive rate
\* limits the fetch.
C34_DownloadGoesOnAfterOwnLoad ==
    [][\A w \in Workers :
         (/\ wk[w].pc = "dl_fetch" /\ wk[w].fresh
          /\ Stepped(w)
          /\ wk'[w].status = RETRY)
             => limited' = limited + 1]_vars

\* C38 (as stated): when a removal of id has returned, id was not added
\* again and no worker has a task of id in hand any more, the Work Cache
\* holds no entry for id.
C38_NoEntryAfterRemove ==
    \A i \in WorkIds :
        (/\ removals > 0 /\ Removed(i) /\ ~ui.stopping
         /\ \A w \in Workers : wk[w].id # i)
            => items[i] = "none"

\* C40 (as stated): remove(w) of a work id w leaves the retry timers of the
\* actions that are not work actions as they are: the timers of a LoadSeries
\* task whose series id is the number w are the same after the cancellations
\* of remove(w) as before.
C40_RemoveKeepsSeriesTimers ==
    [][(ui.pc = "rm_cancel" /\ ui'.pc # ui.pc)
          => \A s \in SeriesIds :
                retries'[<<s, LOAD_SERIES>>] = retries[<<s, LOAD_SERIES>>]]_vars

\* C36 (as stated): every after-action observer called with Status RETRY,
\* the LoadWork observer that DownloadWork calls after a rate-limited load
\* included, gets the message with the back-off delay, and that delay is the
\* one of a timer the worker armed for the observer's key.
C36_RetryObserverHasMessage ==
    [][\A w \in Workers :
         (/\ wk[w].pc \in {"after", "dl_after"} /\ wk[w].status = RETRY
          /\ Stepped(w))
             => /\ wk[w].error = HIT_RATE_LIMIT
                /\ wk[w].wait >= INITIAL_SECONDS_BEFORE_RETRY]_vars

\* The positions of a worker inside a handler
HandlerPcs ==
    {"reload", "dl_load", "dl_reload", "dl_after", "dl_cancel", "dl_fetch",
     "dl_write", "ls_add", "ls_put"}

\* C35 (as stated): every task whose handler has run goes on from the second
\* Active-Set check to its retry scheduling or cancellation and to exactly
\* one after-action observer call.
C35_AfterForEveryHandledTask ==
    [][\A w \in Workers :
         (wk[w].pc = "check2" /\ Stepped(w))
            => wk'[w].pc \in {"compute", "cancel", "after"}]_vars

\* C35 (amended): the events of a task come in the order Active-Set check,
\* before-action observer, handler, second Active-Set check; a task whose id
\* passes the second check goes on to the retry scheduling (RETRY) or the
\* retry cancellation (OK) and then to one after-action observer call with
\* the handler's status, after which the worker is back at the queue; ERROR
\* leaves the retry table alone; the LoadWork after-action observer inside
\* DownloadWork follows its before-action observer.
C35_EventsInOrder ==
    [][\A w \in Workers :
         Stepped(w) =>
           /\ (wk'[w].pc = "run")
                 => /\ wk[w].pc = "check1"
                    /\ IsWorkIdActive(wk[w].id, wk[w].act)
           /\ (wk'[w].pc \in HandlerPcs)
                 => wk[w].pc \in {"run"} \cup HandlerPcs
           /\ (wk'[w].pc = "dl_reload") => wk[w].pc = "dl_load"
           /\ (wk'[w].pc = "dl_after") => wk[w].pc \in {"dl_load", "dl_reload"}
           /\ (wk'[w].pc = "check2")
                 => /\ wk[w].pc \in {"run"} \cup HandlerPcs
                    /\ wk'[w].status \in {OK, ERROR, RETRY}
           /\ (wk[w].pc = "check2")
                 => IF IsWorkIdActive(wk[w].id, wk[w].act)
                    THEN /\ wk'[w].pc = CASE wk[w].status = RETRY -> "compute"
                                         [] wk[w].status = OK -> "cancel"
                                         [] OTHER -> "after"
                         /\ retries' = retries
                    ELSE wk'[w] = Idle /\ retries' = retries
           /\ (wk'[w].pc \in {"compute", "cancel"}) => wk[w].pc = "check2"
           /\ (wk[w].pc = "compute") => wk'[w].pc = "arm" /\ retries' = retries
           /\ (wk[w].pc = "arm")
                 => /\ wk'[w].pc = "after"
                    /\ Len(retries'[KeyOf(w)]) = Len(retries[KeyOf(w)]) + 1
           /\ (wk[w].pc = "cancel")
                 => wk'[w].pc = "after" /\ retries'[KeyOf(w)] = <<>>
           /\ (wk'[w].pc = "after")
                 => /\ wk[w].pc \in {"check2", "arm", "cancel"}
                    /\ wk[w].pc = "check2" => wk[w].status = ERROR
                    /\ wk[w].pc = "arm" => wk[w].status = RETRY
                    /\ wk[w].pc = "cancel" => wk[w].status = OK
           /\ (wk[w].pc \in {"check2", "compute", "arm", "cancel"}
                 /\ wk'[w].pc # "get")
                 => wk'[w].status = wk[w].status
           /\ (wk[w].pc = "after") => wk'[w] = Idle]_vars

\* C35 witness: a worker is about to call the after-action observer of a
\* task that ended with RETRY, having armed the timer of its key.
C35_Witness ==
    \E w \in Workers :
        /\ wk[w].pc = "after" /\ wk[w].status = RETRY
        /\ wk[w].error = HIT_RATE_LIMIT
        /\ \E n \in 1..Len(retries[KeyOf(w)]) :
              retries[KeyOf(w)][n].delay = wk[w].wait

\* C37 (as stated): whenever the DownloadWork handler opens its target file,
\* the download directory of the session whose username is in the path exists,
\* also when the session changed between the download call and the handler.
C37_DirectoryExistsAtOpen ==
    [][\A w \in Workers :
         (/\ wk[w].pc = "dl_write" /\ ~ContentMissing(wk[w].body)
          /\ Stepped(w))
             => wk[w].dir \in dirs]_vars

\* C31 (as stated): every task that a public call puts on the action queue
\* is put between the two enqueue callbacks of its action: the controller
\* has called the before-enqueue callback for the task when it makes the
\* put, and its next event is the after-enqueue callback (for Login and
\* LoadSeries as well as for LoadWork and DownloadWork).
C31_PutBetweenCallbacks ==
    [][(ui.ops # <<>> /\ Head(ui.ops).ev = "put" /\ ui'.ops # ui.ops)
          => /\ enq[Ui] = <<Head(ui.ops).id, Head(ui.ops).act>>
             /\ Tail(ui.ops) # <<>>
             /\ Head(Tail(ui.ops)).ev = "after_enqueue"]_vars

\* The n-th timer of key k takes a step: its wait ends, or it calls its
\* function.
TimerStep(k, n) ==
    /\ n \in 1..Len(retries[k]) /\ n <= Len(retries'[k])
    /\ retries'[k][n].st # retries[k][n].st

\* C39: a step of a retry timer leaves the Active Set as it is and opens no
\* enqueue callback; the step in which the timer calls its function puts
\* exactly (identifier, action) of its key at the end of the action queue and
\* changes nothing else but the timer; and a work task, retried or not,
\* whose id is not in the Active Set at the worker's membership check is
\* dropped.
C39_TimerOnlyPuts ==
    [][/\ \A k \in Keys : \A n \in 1..Len(retries[k]) :
            TimerStep(k, n)
               => /\ active' = active /\ ever' = ever /\ enq' = enq
                  /\ wk' = wk /\ ui' = ui /\ items' = items
                  /\ queue' = IF retries[k][n].st = "firing"
                              THEN Append(queue, <<k[1], k[2]>>)
                              ELSE queue
       /\ \A w \in Workers :
            (wk[w].pc = "check1" /\ IsWorkTask(w) /\ wk[w].id \notin active
               /\ Stepped(w))
               => (wk'[w].pc = "get" /\ active' = active)]_vars

\* C39 witness: a timer of a work key has fired and put its task on the
\* queue while the id of the key is not in the Active Set.
C39_Witness ==
    \E k \in Keys :
        /\ k[2] \in WorkActions /\ k[1] \notin active
        /\ \E n \in 1..Len(retries[k]) : retries[k][n].st = "done"
        /\ \E m \in 1..Len(queue) : queue[m] = <<k[1], k[2]>>

====
